---- MODULE Spec2Model ----
(***************************************************************************)
(* upptest.h: the registry of test descriptors, the lifecycle of one test  *)
(* (Test::execute) and the runner that drives a range of descriptors       *)
(* through a filter and reports every Result to an observer.               *)
(***************************************************************************)
EXTENDS Integers, Sequences, FiniteSets, TLC

\* ---------------------------------------------------------------- bounds
\* Number of distinct declared tests (Info objects).
NumInfos == 2
\* Longest registry (and so longest range) explored.
MaxTests == 3
\* Largest advance of the steady clock, in ticks, during one hook.
MaxTick == 1

\* Largest magnitude of an integer operand handed to eq and neq.
MaxOperand == 12

\* Clock ticks per millisecond: duration_cast<milliseconds> truncates.
TicksPerMs == 2

\* ------------------------------------------------------------ data types
\* enum class Status
Status == {"not_run", "pass", "fail"}

\* The declared tests; 0 stands for the null Info pointer.
Infos == 1..NumInfos

\* Info::category of each declared test.
Category(ti) == IF ti % 2 = 1 THEN "fast" ELSE "slow"

\* Result::Result()
NewResult ==
    [info |-> 0, status |-> "not_run", duration |-> 0,
     err_message |-> "", err_file |-> "", err_line |-> 0]

\* A Result a caller reuses: it still holds an earlier failure.
StaleResult ==
    [info |-> 0, status |-> "fail", duration |-> 1,
     err_message |-> "old failure", err_file |-> "old.cpp", err_line |-> 3]

\* The Results a caller hands to run(ti, out_res).
CallerResults == {NewResult, StaleResult}

\* What a hook does: it returns, or it throws.  kind is "none" (returns),
\* "assert" (assert_fail_exception), "std" (another std::exception) or
\* "other" (a value that is no std::exception, such as throw 42).
\* has_what is FALSE when what() returns a null pointer.
Returns ==
    [kind |-> "none", has_what |-> FALSE, what |-> "", file |-> "", line |-> 0]

\* Default_Fail_Handler::handle: the Failure Signal raised by an assertion.
FailureSignal(message, file_name, line_num) ==
    [kind |-> "assert", has_what |-> TRUE, what |-> message,
     file |-> file_name, line |-> line_num]

\* std::ostream << int: the decimal digits, with a minus sign when negative.
Digits == <<"0", "1", "2", "3", "4", "5", "6", "7", "8", "9">>

RECURSIVE NatStr(_)
NatStr(n) ==
    IF n < 10 THEN Digits[n + 1] ELSE NatStr(n \div 10) \o Digits[(n % 10) + 1]

IntStr(n) == IF n < 0 THEN "-" \o NatStr(-n) ELSE NatStr(n)

\* The integer operands, the conditions, the pointers (0 is nullptr), the
\* messages and the call sites (file and line; "" and 0 are the defaults)
\* the assertions are called with.
Operands == (-MaxOperand)..MaxOperand

Pointers == {0, 1}

Messages == {"", "boom"}

Sites == {[file |-> "", line |-> 0], [file |-> "test.cpp", line |-> 12]}

\* Basic_Assert<Default_Fail_Handler>::fail
AssertFail(message, file_name, line_num) ==
    FailureSignal(message, file_name, line_num)

\* Basic_Assert::eq printing the operands in the wrong order.
AssertEq_Swapped(expected, actual, file_name, line_num) ==
    IF expected = actual THEN Returns
    ELSE AssertFail((("Expected [" \o IntStr(actual)) \o "] saw [")
                        \o (IntStr(expected) \o "]"),
                    file_name, line_num)

\* Basic_Assert::eq
AssertEq(expected, actual, file_name, line_num) ==
    IF expected = actual THEN Returns
    ELSE AssertFail((("Expected [" \o IntStr(expected)) \o "] saw [")
                        \o (IntStr(actual) \o "]"),
                    file_name, line_num)

\* Basic_Assert::neq
AssertNeq(expected, actual, file_name, line_num) ==
    IF expected # actual THEN Returns
    ELSE AssertFail((("Expected not [" \o IntStr(expected)) \o "] saw [")
                        \o (IntStr(actual) \o "]"),
                    file_name, line_num)

\* Basic_Assert::expr
AssertExpr(ex, file_name, line_num) ==
    IF ex THEN Returns
    ELSE AssertFail("Assert expression failed", file_name, line_num)

\* Basic_Assert::is_true
AssertIsTrue(condition, file_name, line_num) ==
    IF condition THEN Returns
    ELSE AssertFail("Expected [true] saw [false]", file_name, line_num)

\* Basic_Assert::is_false
AssertIsFalse(condition, file_name, line_num) ==
    IF ~condition THEN Returns
    ELSE AssertFail("Expected [false] saw [true]", file_name, line_num)

\* Basic_Assert::is_null
AssertIsNull(ptr, file_name, line_num) ==
    IF ptr = 0 THEN Returns
    ELSE AssertFail("Expected [nullptr]", file_name, line_num)

\* Basic_Assert::is_not_null with the test inverted.
AssertIsNotNull_Inverted(ptr, file_name, line_num) ==
    IF ptr = 0 THEN Returns
    ELSE AssertFail("Expected not [nullptr]", file_name, line_num)

\* Basic_Assert::is_not_null
AssertIsNotNull(ptr, file_name, line_num) ==
    IF ptr # 0 THEN Returns
    ELSE AssertFail("Expected not [nullptr]", file_name, line_num)

\* No assertion has been called yet.
NoAssertion ==
    [op |-> "none", expected |-> 0, actual |-> 0, condition |-> FALSE,
     ptr |-> 0, message |-> "", file |-> "", line |-> 0, out |-> Returns]

\* The Failure Signals the tests raise: UASSERT_EQ(5, 6) at test.cpp:12 and
\* assert::fail("") with the default file and line.
Signals ==
    {FailureSignal("Expected [5] saw [6]", "test.cpp", 12),
     FailureSignal("", "", 0)}

\* The other std::exception objects the tests throw, by what().
StdErrors ==
    {[kind |-> "std", has_what |-> TRUE, what |-> "boom", file |-> "", line |-> 0],
     [kind |-> "std", has_what |-> TRUE, what |-> "", file |-> "", line |-> 0],
     [kind |-> "std", has_what |-> FALSE, what |-> "", file |-> "", line |-> 0]}

\* A thrown value that is not a std::exception.
OtherError ==
    [kind |-> "other", has_what |-> FALSE, what |-> "", file |-> "", line |-> 0]

Outcomes == {Returns} \cup Signals \cup StdErrors \cup {OtherError}

\* The filter predicates handed to the runner: the accept-all default, a
\* category match, and a category no test has.
Filters == {"all", "fast", "none"}

Filter(f, ti) == f = "all" \/ Category(ti) = f

\* ------------------------------------------------------------- variables
VARIABLES
    instance,      \* Registry::get: the singleton has been constructed
    tests,         \* Registry::_tests
    addLog,        \* history: the descriptors passed to add, in call order
    pc,            \* where the program is
    range,         \* [itr_begin, itr_end) of the running Runner::run
    filter,        \* the filter of the running Runner::run
    itr,           \* position of itr in range
    pass,          \* Runner::run's pass counter
    test_count,    \* Runner::run's test_count
    res,           \* the Result of the current execution
    tst,           \* the live Test instance (its descriptor), 0 when none
    elapsed,       \* steady_clock ticks since test_start_time
    calls,         \* history: the hooks invoked on tst and what each did
    execRet,       \* the Status Test::execute returned
    executed,      \* history: descriptor and returned Status per execute
    factoryCalls,  \* history: the descriptors whose factory was called
    observed,      \* history: descriptor and status of each Result observed
    runRet,        \* the Status Runner::run returned
    thrown,        \* the error that escaped, Returns when none
    caller,        \* who called run(ti, res): the range loop or a single call
    res0,          \* history: the Result as it was at the entry of execute
    destroyed,     \* history: the number of Test instances destroyed
    assertion      \* the last Basic_Assert call: its arguments and outcome

vars ==
    <<instance, tests, addLog, pc, range, filter, itr, pass, test_count, res,
      tst, elapsed, calls, execRet, executed, factoryCalls, observed, runRet,
      thrown, caller, res0, destroyed, assertion>>

registryVars == <<instance, tests, addLog>>
runVars == <<range, filter, itr, pass, test_count>>
historyVars == <<executed, factoryCalls, observed>>
programVars ==
    <<instance, tests, addLog, pc, range, filter, itr, pass, test_count, res,
      tst, elapsed, calls, execRet, executed, factoryCalls, observed, runRet,
      thrown, caller, res0, destroyed>>

\* ------------------------------------------------------------- operators
\* Result::exception testing the description for emptiness, not for null.
ResultException_EmptyTest(r, ex) ==
    [r EXCEPT !.status = "fail",
              !.err_message =
                  IF ex.has_what /\ ex.what # ""
                  THEN ("unhandled exception" \o ": ") \o ex.what
                  ELSE "unhandled exception"]

\* Result::exception resetting the location of the failure.
ResultException_ClearsSite(r, ex) ==
    [r EXCEPT !.status = "fail",
              !.err_message =
                  IF ex.has_what
                  THEN ("unhandled exception" \o ": ") \o ex.what
                  ELSE "unhandled exception",
              !.err_file = "", !.err_line = 0]

\* Result::exception
ResultException(r, ex) ==
    [r EXCEPT !.status = "fail",
              !.err_message =
                  IF ex.has_what
                  THEN ("unhandled exception" \o ": ") \o ex.what
                  ELSE "unhandled exception"]

\* Result::fail forgetting the line number.
ResultFail_NoLine(r, msg, file_name, line_num) ==
    [r EXCEPT !.status = "fail", !.err_message = msg, !.err_file = file_name]

\* Result::fail
ResultFail(r, msg, file_name, line_num) ==
    [r EXCEPT !.status = "fail", !.err_message = msg,
              !.err_file = file_name, !.err_line = line_num]

\* Registry::add refusing a descriptor it already holds.
RegistryAdd_Dedup(ts, test) ==
    IF \E i \in DOMAIN ts : ts[i] = test THEN ts ELSE Append(ts, test)

\* Registry::add
RegistryAdd(ts, test) == Append(ts, test)

\* Runner::run passing as soon as one test passed.
RunStatus_AnyPass(p, n) == IF p > 0 \/ n = 0 THEN "pass" ELSE "fail"

\* The value Runner::run returns from its two counters.
RunStatus(p, n) == IF p = n THEN "pass" ELSE "fail"

\* The catch clauses of Test::execute applied to an error thrown inside the
\* try block: the Result it leaves, or the error going on when none matches.
Caught(ex) == ex.kind \in {"assert", "std"}

Handle(r, ex) ==
    IF ex.kind = "assert" THEN ResultFail(r, ex.what, ex.file, ex.line)
    ELSE ResultException(r, ex)

\* How often a hook has been invoked on the current Test.
Invoked(hook) == Cardinality({i \in DOMAIN calls : calls[i].hook = hook})

\* ---------------------------------------------------------------- Init
Init ==
    /\ instance = FALSE
    /\ tests = <<>>
    /\ addLog = <<>>
    /\ pc = "idle"
    /\ range = <<>>
    /\ filter = "all"
    /\ itr = 1
    /\ pass = 0
    /\ test_count = 0
    /\ res = NewResult
    /\ tst = 0
    /\ elapsed = 0
    /\ calls = <<>>
    /\ execRet = "not_run"
    /\ executed = <<>>
    /\ factoryCalls = <<>>
    /\ observed = <<>>
    /\ runRet = "not_run"
    /\ thrown = Returns
    /\ caller = "none"
    /\ res0 = NewResult
    /\ destroyed = 0
    /\ assertion = NoAssertion

\* --------------------------------------------------------------- actions
\* Auto_Registered_Test(info): Registry::get().add(info), during static
\* initialization.
AutoRegister(info) ==
    /\ pc = "idle"
    /\ Len(tests) < MaxTests
    /\ instance' = TRUE
    /\ tests' = RegistryAdd(tests, info)
    /\ addLog' = Append(addLog, info)
    /\ UNCHANGED <<pc, runVars, res, tst, elapsed, calls, execRet,
                   historyVars, runRet, thrown, caller, res0, destroyed,
                   assertion>>

\* Runner::run_registered(filter, observer): run over Registry::get().tests().
RunRegistered(f) ==
    /\ pc = "idle"
    /\ instance' = TRUE
    /\ range' = tests
    /\ filter' = f
    /\ itr' = 1
    /\ pass' = 0
    /\ test_count' = 0
    /\ pc' = "loop"
    /\ caller' = "range"
    /\ UNCHANGED <<tests, addLog, res, tst, elapsed, calls, execRet,
                   historyVars, runRet, thrown, res0, destroyed, assertion>>

\* The loop counting a rejected descriptor as a test.
RunnerSkip_Counted ==
    /\ pc = "loop"
    /\ itr <= Len(range)
    /\ ~Filter(filter, range[itr])
    /\ itr' = itr + 1
    /\ test_count' = test_count + 1
    /\ UNCHANGED <<registryVars, pc, range, filter, pass, res, tst,
                   elapsed, calls, execRet, historyVars, runRet, thrown,
                   caller, res0, destroyed, assertion>>

\* The loop of Runner::run on a descriptor the filter rejects: ++itr.
RunnerSkip ==
    /\ pc = "loop"
    /\ itr <= Len(range)
    /\ ~Filter(filter, range[itr])
    /\ itr' = itr + 1
    /\ UNCHANGED <<registryVars, pc, range, filter, pass, test_count, res, tst,
                   elapsed, calls, execRet, historyVars, runRet, thrown,
                   caller, res0, destroyed, assertion>>

\* The loop of Runner::run on an accepted descriptor: Result res; then
\* run(ti, res) up to the entry of execute: the factory builds the Test,
\* the Result is stamped, the start time is taken.
RunnerRunOne ==
    /\ pc = "loop"
    /\ itr <= Len(range)
    /\ Filter(filter, range[itr])
    /\ tst' = range[itr]
    /\ factoryCalls' = Append(factoryCalls, range[itr])
    /\ res' = [NewResult EXCEPT !.info = range[itr]]
    /\ res0' = res'
    /\ elapsed' = 0
    /\ calls' = <<>>
    /\ execRet' = "not_run"
    /\ pc' = "pre"
    /\ UNCHANGED <<registryVars, runVars, executed, observed, runRet, thrown,
                   caller, destroyed, assertion>>

\* Runner::run(ti, out_res) forgetting out_res.info = ti.
RunSingle_NoStamp(ti, r) ==
    /\ pc = "idle"
    /\ tst' = ti
    /\ factoryCalls' = Append(factoryCalls, ti)
    /\ res' = r
    /\ res0' = res'
    /\ elapsed' = 0
    /\ calls' = <<>>
    /\ execRet' = "not_run"
    /\ caller' = "single"
    /\ pc' = "pre"
    /\ UNCHANGED <<registryVars, runVars, executed, observed, runRet, thrown,
                   destroyed, assertion>>

\* Runner::run(ti, out_res) called directly on a Result of the caller's, up
\* to the entry of execute.
RunSingle(ti, r) ==
    /\ pc = "idle"
    /\ tst' = ti
    /\ factoryCalls' = Append(factoryCalls, ti)
    /\ res' = [r EXCEPT !.info = ti]
    /\ res0' = res'
    /\ elapsed' = 0
    /\ calls' = <<>>
    /\ execRet' = "not_run"
    /\ caller' = "single"
    /\ pc' = "pre"
    /\ UNCHANGED <<registryVars, runVars, executed, observed, runRet, thrown,
                   destroyed, assertion>>

\* An error leaves execute and, nothing catching it, Runner::run: the stack
\* unwinds and the Test is destroyed.
Escape(ex) ==
    /\ thrown' = ex
    /\ tst' = 0
    /\ destroyed' = destroyed + 1
    /\ pc' = "escaped"
    /\ UNCHANGED <<res, execRet, executed>>

\* An error thrown inside the try block of execute.
Thrown(ex) ==
    IF Caught(ex)
    THEN /\ res' = Handle(res, ex)
         /\ pc' = "post"
         /\ UNCHANGED <<tst, execRet, executed, thrown, destroyed>>
    ELSE Escape(ex)

\* execute: pre_test().
PreTest(o, dt) ==
    /\ pc = "pre"
    /\ calls' = Append(calls, [hook |-> "pre_test", out |-> o])
    /\ elapsed' = elapsed + dt
    /\ IF o.kind = "none"
       THEN /\ pc' = "body"
            /\ UNCHANGED <<res, tst, execRet, executed, thrown, destroyed>>
       ELSE Thrown(o)
    /\ UNCHANGED <<registryVars, runVars, factoryCalls, observed, runRet,
                   caller, res0, assertion>>

\* execute forgetting res.status = Status::pass.
ExecuteTest_NoPass(o, dt) ==
    /\ pc = "body"
    /\ calls' = Append(calls, [hook |-> "execute_test", out |-> o])
    /\ elapsed' = elapsed + dt
    /\ IF o.kind = "none"
       THEN /\ pc' = "post"
            /\ UNCHANGED <<res, tst, execRet, executed, thrown, destroyed>>
       ELSE Thrown(o)
    /\ UNCHANGED <<registryVars, runVars, factoryCalls, observed, runRet,
                   caller, res0, assertion>>

\* execute: execute_test(); res.status = Status::pass.
ExecuteTest(o, dt) ==
    /\ pc = "body"
    /\ calls' = Append(calls, [hook |-> "execute_test", out |-> o])
    /\ elapsed' = elapsed + dt
    /\ IF o.kind = "none"
       THEN /\ res' = [res EXCEPT !.status = "pass"]
            /\ pc' = "post"
            /\ UNCHANGED <<tst, execRet, executed, thrown, destroyed>>
       ELSE Thrown(o)
    /\ UNCHANGED <<registryVars, runVars, factoryCalls, observed, runRet,
                   caller, res0, assertion>>

\* execute assigning Status::pass after the teardown instead of after the body.
PostTest_PassAfterTeardown(o, dt) ==
    /\ pc = "post"
    /\ calls' = Append(calls, [hook |-> "post_test", out |-> o])
    /\ elapsed' = elapsed + dt
    /\ IF o.kind = "none"
       THEN /\ res' = [res EXCEPT !.status = "pass",
                                  !.duration = elapsed' \div TicksPerMs]
            /\ execRet' = "pass"
            /\ executed' = Append(executed, [info |-> tst, ret |-> "pass"])
            /\ tst' = 0
            /\ destroyed' = destroyed + 1
            /\ pc' = "ret"
            /\ UNCHANGED thrown
       ELSE Escape(o)
    /\ UNCHANGED <<registryVars, runVars, factoryCalls, observed, runRet,
                   caller, res0, assertion>>

\* run(ti, res) handing the Test on to its caller instead of destroying it.
PostTest_TestKept(o, dt) ==
    /\ pc = "post"
    /\ calls' = Append(calls, [hook |-> "post_test", out |-> o])
    /\ elapsed' = elapsed + dt
    /\ IF o.kind = "none"
       THEN /\ res' = [res EXCEPT !.duration = elapsed' \div TicksPerMs]
            /\ execRet' = res.status
            /\ executed' = Append(executed, [info |-> tst, ret |-> res.status])
            /\ pc' = "ret"
            /\ UNCHANGED <<thrown, tst, destroyed>>
       ELSE Escape(o)
    /\ UNCHANGED <<registryVars, runVars, factoryCalls, observed, runRet,
                   caller, res0, assertion>>

\* execute: post_test(), outside the try block, then the duration and the
\* return; run(ti, res) returns in turn and destroys the Test.
PostTest(o, dt) ==
    /\ pc = "post"
    /\ calls' = Append(calls, [hook |-> "post_test", out |-> o])
    /\ elapsed' = elapsed + dt
    /\ IF o.kind = "none"
       THEN /\ res' = [res EXCEPT !.duration = elapsed' \div TicksPerMs]
            /\ execRet' = res.status
            /\ executed' = Append(executed, [info |-> tst, ret |-> res.status])
            /\ tst' = 0
            /\ destroyed' = destroyed + 1
            /\ pc' = "ret"
            /\ UNCHANGED thrown
       ELSE Escape(o)
    /\ UNCHANGED <<registryVars, runVars, factoryCalls, observed, runRet,
                   caller, res0, assertion>>

\* The loop of Runner::run after run(ti, res): count, observer(res), ++itr;
\* res goes out of scope.
RunnerObserve ==
    /\ pc = "ret"
    /\ caller = "range"
    /\ pass' = IF execRet = "pass" THEN pass + 1 ELSE pass
    /\ test_count' = test_count + 1
    /\ observed' = Append(observed, [info |-> res.info, status |-> res.status])
    /\ itr' = itr + 1
    /\ res' = NewResult
    /\ res0' = NewResult
    /\ calls' = <<>>
    /\ elapsed' = 0
    /\ execRet' = "not_run"
    /\ pc' = "loop"
    /\ UNCHANGED <<registryVars, range, filter, tst, executed, factoryCalls,
                   runRet, thrown, caller, destroyed, assertion>>

\* Runner::run: itr == itr_end, return the aggregate status.
RunnerReturn ==
    /\ pc = "loop"
    /\ itr > Len(range)
    /\ runRet' = RunStatus(pass, test_count)
    /\ pc' = "returned"
    /\ UNCHANGED <<registryVars, runVars, res, tst, elapsed, calls, execRet,
                   historyVars, thrown, caller, res0, destroyed, assertion>>

Next ==
    \/ \E info \in Infos : AutoRegister(info)
    \/ \E f \in Filters : RunRegistered(f)
    \/ RunnerSkip
    \/ RunnerRunOne
    \/ \E ti \in Infos, r \in CallerResults : RunSingle(ti, r)
    \/ \E o \in Outcomes, dt \in 0..MaxTick : PreTest(o, dt)
    \/ \E o \in Outcomes, dt \in 0..MaxTick : ExecuteTest(o, dt)
    \/ \E o \in Outcomes, dt \in 0..MaxTick : PostTest(o, dt)
    \/ RunnerObserve
    \/ RunnerReturn

Spec == Init /\ [][Next]_vars

\* ------------------------------------------------- the assertion engine
\* One call of an assertion per behaviour (the assertions keep no state), on
\* every operand and call site.
CallEq(e, a, s) ==
    /\ assertion = NoAssertion
    /\ assertion' = [NoAssertion EXCEPT !.op = "eq", !.expected = e, !.actual = a,
                        !.file = s.file, !.line = s.line,
                        !.out = AssertEq(e, a, s.file, s.line)]
    /\ UNCHANGED programVars

CallNeq(e, a, s) ==
    /\ assertion = NoAssertion
    /\ assertion' = [NoAssertion EXCEPT !.op = "neq", !.expected = e, !.actual = a,
                        !.file = s.file, !.line = s.line,
                        !.out = AssertNeq(e, a, s.file, s.line)]
    /\ UNCHANGED programVars

CallExpr(c, s) ==
    /\ assertion = NoAssertion
    /\ assertion' = [NoAssertion EXCEPT !.op = "expr", !.condition = c,
                        !.file = s.file, !.line = s.line,
                        !.out = AssertExpr(c, s.file, s.line)]
    /\ UNCHANGED programVars

CallIsTrue(c, s) ==
    /\ assertion = NoAssertion
    /\ assertion' = [NoAssertion EXCEPT !.op = "is_true", !.condition = c,
                        !.file = s.file, !.line = s.line,
                        !.out = AssertIsTrue(c, s.file, s.line)]
    /\ UNCHANGED programVars

CallIsFalse(c, s) ==
    /\ assertion = NoAssertion
    /\ assertion' = [NoAssertion EXCEPT !.op = "is_false", !.condition = c,
                        !.file = s.file, !.line = s.line,
                        !.out = AssertIsFalse(c, s.file, s.line)]
    /\ UNCHANGED programVars

CallIsNull(p, s) ==
    /\ assertion = NoAssertion
    /\ assertion' = [NoAssertion EXCEPT !.op = "is_null", !.ptr = p,
                        !.file = s.file, !.line = s.line,
                        !.out = AssertIsNull(p, s.file, s.line)]
    /\ UNCHANGED programVars

CallIsNotNull(p, s) ==
    /\ assertion = NoAssertion
    /\ assertion' = [NoAssertion EXCEPT !.op = "is_not_null", !.ptr = p,
                        !.file = s.file, !.line = s.line,
                        !.out = AssertIsNotNull(p, s.file, s.line)]
    /\ UNCHANGED programVars

CallFail(m, s) ==
    /\ assertion = NoAssertion
    /\ assertion' = [NoAssertion EXCEPT !.op = "fail", !.message = m,
                        !.file = s.file, !.line = s.line,
                        !.out = AssertFail(m, s.file, s.line)]
    /\ UNCHANGED programVars

AssertNext ==
    \/ \E e \in Operands, a \in Operands, s \in Sites : CallEq(e, a, s)
    \/ \E e \in Operands, a \in Operands, s \in Sites : CallNeq(e, a, s)
    \/ \E c \in BOOLEAN, s \in Sites : CallExpr(c, s)
    \/ \E c \in BOOLEAN, s \in Sites : CallIsTrue(c, s)
    \/ \E c \in BOOLEAN, s \in Sites : CallIsFalse(c, s)
    \/ \E p \in Pointers, s \in Sites : CallIsNull(p, s)
    \/ \E p \in Pointers, s \in Sites : CallIsNotNull(p, s)
    \/ \E m \in Messages, s \in Sites : CallFail(m, s)

AssertSpec == Init /\ [][AssertNext]_vars

\* ------------------------------------------------------------ properties
\* The descriptors of a sequence that the running filter accepts, in order.
Accepted(seq) == SelectSeq(seq, LAMBDA ti : Filter(filter, ti))

\* The declared tests the running filter rejects.
Rejected == {ti \in Infos : ~Filter(filter, ti)}

ObservedInfos == [i \in DOMAIN observed |-> observed[i].info]

ExecutedInfos == [i \in DOMAIN executed |-> executed[i].info]

AllExecutedPassed == \A i \in DOMAIN executed : executed[i].ret = "pass"

\* The current Test's hook `hook` was invoked and did `o`.
Did(hook, o) == \E i \in DOMAIN calls : calls[i] = [hook |-> hook, out |-> o]

\* A Result as its constructor leaves it, but for the descriptor stamped on it.
FreshResult(r) == r = [NewResult EXCEPT !.info = r.info]

IsPrefix(s, t) == Len(s) <= Len(t) /\ SubSeq(t, 1, Len(s)) = s

\* C1: execute contains every error: whatever setup, body or teardown
\* raise, no error escapes execute, and at its return the Status returned
\* is pass or fail, is the Result's status, and the duration is set.
C1_ExecuteContainsEveryError ==
    /\ pc # "escaped"
    /\ thrown = Returns
    /\ pc = "ret" =>
        /\ execRet \in {"pass", "fail"}
        /\ res.status = execRet
        /\ res.duration = elapsed \div TicksPerMs

\* C2: on every exit path of execute, by return or by an error, post_test
\* has been invoked exactly once.
C2_TeardownExactlyOnce ==
    pc \in {"ret", "escaped"} => Invoked("post_test") = 1

\* C3: the observer is invoked exactly once per accepted descriptor, in
\* range order, right after that test's execution and before the next
\* descriptor is looked at, and always with a pass or fail Result: at the
\* loop head the observed descriptors are the accepted ones among those
\* passed, and when the run is over they are the accepted ones of the range.
C3_ObserverOncePerAccepted ==
    /\ pc = "loop" => ObservedInfos = Accepted(SubSeq(range, 1, itr - 1))
    /\ pc \in {"returned", "escaped"} => ObservedInfos = Accepted(range)
    /\ \A i \in DOMAIN observed : observed[i].status \in {"pass", "fail"}

\* C4: the Status Runner::run returns is pass exactly when every execute
\* of the run returned pass, fail exactly when one did not, and pass with
\* no observer call when nothing was executed.
C4_AggregateStatus ==
    pc = "returned" =>
        /\ runRet \in {"pass", "fail"}
        /\ (runRet = "pass") <=> AllExecutedPassed
        /\ (runRet = "fail") <=> (\E i \in DOMAIN executed : executed[i].ret = "fail")
        /\ executed = <<>> => (runRet = "pass" /\ observed = <<>>)

\* A run of at least two tests returned fail although one of them passed.
C4_Witness ==
    /\ pc = "returned"
    /\ runRet = "fail"
    /\ Len(executed) >= 2
    /\ \E i \in DOMAIN executed : executed[i].ret = "pass"

\* C5: a rejected descriptor is skipped entirely: its factory is never
\* called, it is never executed nor observed, it is not counted, and the
\* Status returned is the aggregate over the accepted descriptors alone.
C5_RejectedSkipped ==
    pc # "idle" =>
        /\ \A i \in DOMAIN factoryCalls : factoryCalls[i] \notin Rejected
        /\ \A i \in DOMAIN executed : executed[i].info \notin Rejected
        /\ \A i \in DOMAIN observed : observed[i].info \notin Rejected
        /\ test_count = Len(observed)
        /\ pc = "returned" =>
            /\ factoryCalls = Accepted(range)
            /\ ExecutedInfos = Accepted(range)
            /\ Len(observed) = Len(Accepted(range))
            /\ runRet = (IF AllExecutedPassed THEN "pass" ELSE "fail")

\* A run returned over three descriptors of which the filter rejected one.
C5_Witness ==
    /\ pc = "returned"
    /\ Len(range) = 3
    /\ \E i \in DOMAIN range : range[i] \in Rejected
    /\ Len(observed) = 2

\* C6: once the body has raised a Failure Signal (M, F, L) the Result has
\* status fail, err_message M, err_file F and err_line L, and the Status
\* execute returns is fail.
C6_FailureSignalRecorded ==
    \A sig \in Signals :
        Did("execute_test", sig) =>
            /\ res.status = "fail"
            /\ res.err_message = sig.what
            /\ res.err_file = sig.file
            /\ res.err_line = sig.line
            /\ pc = "ret" => execRet = "fail"

\* execute returned after the body failed UASSERT_EQ(5, 6) at test.cpp:12.
C6_Witness ==
    /\ pc = "ret"
    /\ Did("execute_test", FailureSignal("Expected [5] saw [6]", "test.cpp", 12))

\* C7 as stated: once the body has raised a std::exception with description
\* D, the Result has status fail and err_message "unhandled exception: " D
\* when D is not empty, and "unhandled exception" alone when D is empty.
C7_EmptyDescriptionBare ==
    \A ex \in StdErrors :
        Did("execute_test", ex) =>
            /\ res.status = "fail"
            /\ ex.what # "" => res.err_message = "unhandled exception: " \o ex.what
            /\ ex.what = "" => res.err_message = "unhandled exception"

\* C7, amended: once the body has raised a std::exception, the Result has
\* status fail and err_message "unhandled exception: " followed by the
\* description whenever what() gives one, the empty one included, and
\* "unhandled exception" alone only when what() gives none (a null pointer).
C7_NullDescriptionBare ==
    \A ex \in StdErrors :
        Did("execute_test", ex) =>
            /\ res.status = "fail"
            /\ ex.has_what => res.err_message = "unhandled exception: " \o ex.what
            /\ ~ex.has_what => res.err_message = "unhandled exception"

\* execute returned after the body threw a std::exception whose what() is "".
C7_Witness ==
    /\ pc = "ret"
    /\ \E ex \in StdErrors : ex.has_what /\ ex.what = "" /\ Did("execute_test", ex)

\* C8: after execute on a fresh Result, status fail comes with a non-empty
\* err_message, and status pass with empty err_message and err_file and
\* err_line 0.
C8_ResultInvariant ==
    (pc = "ret" /\ FreshResult(res0)) =>
        /\ res.status = "fail" => res.err_message # ""
        /\ res.status = "pass" =>
            (res.err_message = "" /\ res.err_file = "" /\ res.err_line = 0)

\* C9: a fresh Result has status not_run; within one execution a status
\* that has left not_run never changes again; and the Status execute
\* returns is pass or fail and is the Result's status.
C9_StatusOneTerminal ==
    /\ [][(pc = "loop" /\ pc' = "pre") => res'.status = "not_run"]_vars
    /\ [][(pc \in {"pre", "body", "post"} /\ FreshResult(res0)
                /\ res.status # "not_run")
            => res'.status = res.status]_vars
    /\ [](pc = "ret" => (execRet \in {"pass", "fail"} /\ execRet = res.status))

\* execute returned fail after the teardown ran on a Result already failed.
C9_Witness ==
    /\ pc = "ret"
    /\ res.status = "fail"
    /\ Invoked("post_test") = 1

\* C10: tests() is exactly the descriptors added, in call order, duplicates
\* kept, and no step removes or reorders a registered descriptor.
C10_RegistryAppendOnly ==
    /\ [](tests = addLog)
    /\ [][IsPrefix(tests, tests')]_vars

\* Three registrations, the first descriptor registered again after another.
C10_Witness ==
    /\ Len(tests) = 3
    /\ tests[1] # tests[2]
    /\ tests[3] = tests[1]

\* An error thrown by hook `hook` left execute.
EscapedFrom(hook) == pc = "escaped" /\ calls[Len(calls)].hook = hook

\* execute has been entered on the current Result.
InExecute == pc \in {"pre", "body", "post", "ret", "escaped"}

\* The Test instances constructed and not yet destroyed.
Alive == Len(factoryCalls) - destroyed

\* C11 as stated: is_null returns on a null pointer and is_not_null on a
\* non-null one; is_not_null on null raises a Failure Signal with message
\* "Expected not [null]" and is_null on non-null one with "Expected [null]".
C11_NullMessages ==
    /\ assertion.op = "is_null" =>
        IF assertion.ptr = 0 THEN assertion.out = Returns
        ELSE assertion.out.kind = "assert" /\ assertion.out.what = "Expected [null]"
    /\ assertion.op = "is_not_null" =>
        IF assertion.ptr # 0 THEN assertion.out = Returns
        ELSE assertion.out.kind = "assert"
             /\ assertion.out.what = "Expected not [null]"

\* C11, amended: the same, with the messages "Expected not [nullptr]" and
\* "Expected [nullptr]", raised with the call site's file and line.
C11_NullptrMessages ==
    /\ assertion.op = "is_null" =>
        IF assertion.ptr = 0 THEN assertion.out = Returns
        ELSE assertion.out =
                 FailureSignal("Expected [nullptr]", assertion.file, assertion.line)
    /\ assertion.op = "is_not_null" =>
        IF assertion.ptr # 0 THEN assertion.out = Returns
        ELSE assertion.out =
                 FailureSignal("Expected not [nullptr]", assertion.file,
                               assertion.line)

\* is_not_null was called on a null pointer and raised.
C11_Witness ==
    /\ assertion.op = "is_not_null"
    /\ assertion.ptr = 0
    /\ assertion.out.kind = "assert"

\* C12: eq returns iff the operands are equal and otherwise raises
\* "Expected [e] saw [a]"; neq returns iff they differ and otherwise raises
\* "Expected not [e] saw [a]"; the signal carries the call site's file and
\* line.  eq(5, 6) gives "Expected [5] saw [6]".
C12_EqNeq ==
    LET e == assertion.expected
        a == assertion.actual
        out == assertion.out
    IN  /\ assertion.op = "eq" =>
            /\ (out = Returns) <=> (e = a)
            /\ e # a =>
                /\ out.kind = "assert"
                /\ out.what = "Expected [" \o IntStr(e) \o "] saw [" \o IntStr(a) \o "]"
                /\ out.file = assertion.file
                /\ out.line = assertion.line
            /\ (e = 5 /\ a = 6) => out.what = "Expected [5] saw [6]"
            /\ (e = -3 /\ a = 12) => out.what = "Expected [-3] saw [12]"
        /\ assertion.op = "neq" =>
            /\ (out = Returns) <=> (e # a)
            /\ e = a =>
                /\ out.kind = "assert"
                /\ out.what =
                       "Expected not [" \o IntStr(e) \o "] saw [" \o IntStr(a) \o "]"
                /\ out.file = assertion.file
                /\ out.line = assertion.line
            /\ (e = 10 /\ a = 10) => out.what = "Expected not [10] saw [10]"

\* UASSERT_EQ(5, 6) at test.cpp:12 raised.
C12_Witness ==
    /\ assertion.op = "eq"
    /\ assertion.expected = 5
    /\ assertion.actual = 6
    /\ assertion.out = FailureSignal("Expected [5] saw [6]", "test.cpp", 12)

\* C13: once setup and body have returned on a fresh Result, the Result has
\* status pass, an empty err_message and a duration >= 0, and execute
\* returns pass with the duration set from the clock.
C13_PassingTest ==
    (FreshResult(res0) /\ Did("pre_test", Returns) /\ Did("execute_test", Returns)) =>
        /\ res.status = "pass"
        /\ res.err_message = ""
        /\ res.duration >= 0
        /\ pc = "ret" =>
            (execRet = "pass" /\ res.duration = elapsed \div TicksPerMs)

\* execute returned pass on a fresh Result after a full millisecond.
C13_Witness ==
    /\ pc = "ret"
    /\ FreshResult(res0)
    /\ Did("pre_test", Returns)
    /\ Did("execute_test", Returns)
    /\ res.duration = 1

\* C14: an error raised by the teardown is recovered by execute and turned
\* into a fail Result with a non-empty message.
C14_TeardownErrorRecovered ==
    \A o \in Outcomes \ {Returns} :
        Did("post_test", o) =>
            /\ ~EscapedFrom("post_test")
            /\ res.status = "fail"
            /\ res.err_message # ""

\* C15: a Failure Signal raised by the setup leaves status fail with its
\* message, file and line; any other error raised by the setup leaves status
\* fail with the "unhandled exception" message; neither leaves execute.
C15_SetupFailureLikeBody ==
    /\ \A sig \in Signals :
        Did("pre_test", sig) =>
            /\ ~EscapedFrom("pre_test")
            /\ res.status = "fail"
            /\ res.err_message = sig.what
            /\ res.err_file = sig.file
            /\ res.err_line = sig.line
    /\ \A ex \in StdErrors \cup {OtherError} :
        Did("pre_test", ex) =>
            /\ ~EscapedFrom("pre_test")
            /\ res.status = "fail"
            /\ res.err_message \in
                   {"unhandled exception", "unhandled exception: " \o ex.what}

\* C16: a range run never raises; when it is over every accepted
\* descriptor has been executed and observed, and the Status returned is
\* fail when one of them failed.
C16_FailingTestDoesNotStopRunner ==
    caller = "range" =>
        /\ pc # "escaped"
        /\ pc = "returned" =>
            /\ ExecutedInfos = Accepted(range)
            /\ ObservedInfos = Accepted(range)
            /\ (\E i \in DOMAIN executed : executed[i].ret = "fail")
                   => runRet = "fail"

\* C17: the factory is called exactly once per execution; a Test is alive
\* exactly while its execute runs, so never two at once; it is destroyed
\* before the observer is called for it and before the next one is built.
C17_OneFreshTestPerExecution ==
    /\ Alive \in {0, 1}
    /\ (Alive = 1) <=> (pc \in {"pre", "body", "post"})
    /\ tst = (IF Alive = 1 THEN factoryCalls[Len(factoryCalls)] ELSE 0)
    /\ pc \in {"idle", "loop", "ret", "returned"} => factoryCalls = ExecutedInfos
    /\ pc = "escaped" => Len(factoryCalls) = Len(executed) + 1
    /\ (pc = "ret" /\ caller = "range") => destroyed = Len(observed) + 1
    /\ pc = "loop" => destroyed = Len(observed)

\* The second Test of a range run has been destroyed and its Result is about
\* to be observed.
C17_Witness ==
    /\ pc = "ret"
    /\ caller = "range"
    /\ Len(factoryCalls) = 2
    /\ destroyed = 2

\* C18: the Result being executed, and every Result observed, carries the
\* descriptor whose factory built the Test; the Status run(ti, res) returns
\* is the Result's status.
C18_ResultStamped ==
    /\ InExecute =>
        /\ res.info = factoryCalls[Len(factoryCalls)]
        /\ res.info \in Infos
    /\ \A i \in DOMAIN observed : observed[i].info = factoryCalls[i]
    /\ pc = "ret" =>
        /\ execRet = res.status
        /\ executed[Len(executed)] = [info |-> res.info, ret |-> res.status]

\* run(ti, res) returned for descriptor 2 on a Result the caller reused.
C18_Witness ==
    /\ pc = "ret"
    /\ caller = "single"
    /\ res0.err_message = "old failure"
    /\ res.info = 2

\* C19: each hook is invoked at most once; the body only after the setup
\* has returned; the teardown only after the body phase; and when the setup
\* raises, the body is not invoked and the teardown still is.
C19_LinearLifecycle ==
    /\ \A h \in {"pre_test", "execute_test", "post_test"} : Invoked(h) <= 1
    /\ \A i \in DOMAIN calls :
        /\ calls[i].hook = "pre_test" => i = 1
        /\ calls[i].hook = "execute_test" =>
            (i = 2 /\ calls[1] = [hook |-> "pre_test", out |-> Returns])
        /\ calls[i].hook = "post_test" => (i = Len(calls) /\ i > 1)
    /\ (Invoked("pre_test") = 1 /\ ~Did("pre_test", Returns)) =>
        /\ Invoked("execute_test") = 0
        /\ pc \in {"ret", "escaped"} => Invoked("post_test") = 1

\* C20: execute never writes info; when setup and body return it leaves
\* err_message, err_file and err_line as they were at its entry; when it
\* catches a std::exception it leaves err_file and err_line as they were.
C20_ExecuteFrame ==
    InExecute =>
        /\ res.info = res0.info
        /\ (Did("pre_test", Returns) /\ Did("execute_test", Returns)) =>
            /\ res.err_message = res0.err_message
            /\ res.err_file = res0.err_file
            /\ res.err_line = res0.err_line
        /\ (\E ex \in StdErrors : Did("pre_test", ex) \/ Did("execute_test", ex)) =>
            /\ res.status = "fail"
            /\ res.err_file = res0.err_file
            /\ res.err_line = res0.err_line

\* execute returned after catching a std::exception on a Result that held
\* the location of an earlier failure.
C20_Witness ==
    /\ pc = "ret"
    /\ res0.err_file = "old.cpp"
    /\ \E ex \in StdErrors : Did("execute_test", ex)

====
